---- MODULE Spec2Model ----
(***************************************************************************)
(* Model of bin/generate_jobs.py: one pass of main() over the descriptors  *)
(* of a working directory, the detection function status()/done(), and the *)
(* per-state action sequences, running next to the external cluster job    *)
(* that writes the run directory.                                          *)
(*                                                                         *)
(* Specifications over the same variables:                                 *)
(*   Spec        one descriptor, the cluster job running beside the pass   *)
(*   SpecBatch   two descriptors on what the cluster has left              *)
(*   SpecDetect  detection on every evidence and log text                  *)
(*   SpecResume  passes re-run under weak fairness, stopped at most        *)
(*               MaxStops times, every transfer succeeding                 *)
(*   SpecConfig  the pass with any of the directories of args missing      *)
(*   SpecArchive make_tarfile called on its own                            *)
(*   SpecRace    two invocations of the script at once                     *)
(***************************************************************************)
EXTENDS Integers, Sequences, FiniteSets, TLC

\* ------------------------------------------------------------------------
\* Bounds of the model
\* ------------------------------------------------------------------------
MaxLogFiles == 2      \* *_LOG.txt files the cluster job may leave in a run directory
MaxLogLines == 2      \* lines the cluster job writes into a log file
MaxLineLen == 2       \* tokens of a log line handed to done()
MaxTextLines == 1     \* lines of a log file handed to done()
MaxSubmits == 2       \* cap on the count of Submitter calls per descriptor
MaxStops == 1         \* times the pass is stopped from outside, where that is counted

Jobs == {"job7", "job8"}

\* args.work_dir, args.results_dir, args.log_dir
Dirs == {"work_dir", "results_dir", "log_dir"}

\* Result file names; "reads.sam" matches the dropseqtools pattern '[\w\d]+.sam$'.
ResultFiles == {"output.txt", "reads.sam"}

Pipelines == {"dropseqtools", "cellranger"}

None == "None"

\* A log line is a sequence of tokens:
\*   "t" ordinary text, "w" whitespace,
\*   "S" the text "Final process status is success",
\*   "J" the text "Joining real-time logging server thread.",
\*   "K" the text "KeyboardInterrupt", "P" text containing "permanentFail".
Tokens == {"t", "w", "S", "J", "K", "P"}

SeqsUpTo(S, n) == UNION {[1..k -> S] : k \in 0..n}

Lines == SeqsUpTo(Tokens, MaxLineLen)

LogTexts == SeqsUpTo(Lines, MaxTextLines)

\* Lines the cluster job writes in the full system: progress, and the
\* traceback line of a cancelled run (with trailing whitespace).
SchedulerLines == {<<"t">>, <<"K", "w">>}

Range(s) == {s[i] : i \in DOMAIN s}

Perms(S) == {q \in [1..Cardinality(S) -> S] : \A a, b \in DOMAIN q : q[a] = q[b] => a = b}

VARIABLES
    desc,      \* desc[j]: <work_dir>/<j>.json exists
    script,    \* script[j]: <work_dir>/<j>.json.sh exists
    run,       \* run[j]: run directory <work_dir>/<j> exists
    resDir,    \* resDir[j]: <work_dir>/<j>/results exists
    logs,      \* logs[j]: number of files matching <work_dir>/<j>/*_LOG.txt
    logText,   \* logText[j]: lines of the (first) log file
    results,   \* results[j]: names in <work_dir>/<j>/results
    durable,   \* durable[j]: <results_dir>/<j>: [st, results]
    blob,      \* blob[j]: objects of the bucket: [desc, log, mirrored, mirror]
    submits,   \* submits[j]: Submitter(..., submit=True) calls made for j
    cluster,   \* cluster[j]: the submitted cluster job: none, queued, started
    pipeline,  \* args.pipeline of the running pass
    pc,        \* position of the pass in main()
    queue,     \* jsonlike_files not yet iterated
    cur,       \* jsonlike of the current iteration
    det,       \* (error, res, log_file) returned by status()
    trace,     \* calls made so far in the current job's sequence
    snap,      \* results listing of the current job when its sequence started
    raised,    \* how the last pass ended: "none", an exception name, or "stopped"
    stops,     \* times the pass has been stopped from outside, where that is counted
    dirs,      \* the directories of args that were there before the first pass
    archive,   \* archive[j]: <work_dir>/<j>.tar.gz: [there, of]
    other      \* a second invocation of the script, while it is not the one taking steps

vars == <<desc, script, run, resDir, logs, logText, results, durable, blob,
          submits, cluster, pipeline, pc, queue, cur, det, trace, snap, raised, stops, dirs, archive, other>>

wd == <<desc, script, run, resDir, logs, logText, results>>
stores == <<durable, blob>>
sched == <<submits, cluster>>
ctl == <<pipeline, pc, queue, cur, det, trace, snap, raised>>
\* What the steps of main() leave as it is.
ext == <<stops, dirs, archive, other>>

NoDet == [error |-> 0, res |-> None, log |-> None]
NoDurable == [st |-> "absent", results |-> {}]
NoBlob == [desc |-> FALSE, log |-> FALSE, mirrored |-> FALSE, mirror |-> {}]
NoArchive == [there |-> FALSE, of |-> {}]

\* An invocation that has not started.
NotStarted ==
    [pipeline |-> "dropseqtools", pc |-> "idle", queue |-> <<>>, cur |-> None,
     det |-> NoDet, trace |-> <<>>, snap |-> {}, raised |-> "none"]

\* ------------------------------------------------------------------------
\* done(log_file)
\* ------------------------------------------------------------------------
RECURSIVE rstrip(_)
rstrip(line) ==
    IF line # <<>> /\ line[Len(line)] = "w"
    THEN rstrip(SubSeq(line, 1, Len(line) - 1))
    ELSE line

endswith(line, tok) == line # <<>> /\ line[Len(line)] = tok

\* done() without the cwltool phrase, as in archived_scripts/generate_jobs.py.
done_archived(text) ==
    \E i \in DOMAIN text :
        \/ endswith(rstrip(text[i]), "J")
        \/ endswith(rstrip(text[i]), "K")
        \/ "P" \in Range(rstrip(text[i]))

done(text) ==
    \E i \in DOMAIN text :
        \/ endswith(rstrip(text[i]), "S")
        \/ endswith(rstrip(text[i]), "J")
        \/ endswith(rstrip(text[i]), "K")
        \/ "P" \in Range(rstrip(text[i]))

\* ------------------------------------------------------------------------
\* status(fn, logger): the returned tuple, or the exception it ends with
\* ------------------------------------------------------------------------
Ret(e, r, l) == [exc |-> None, error |-> e, res |-> r, log |-> l]
Exc(x) == [exc |-> x, error |-> 0, res |-> None, log |-> None]

\* status() taking log_file[0] of the glob instead of asserting on one log.
status_first_log(j) ==
    IF run[j]
    THEN IF logs[j] >= 1
         THEN IF ~resDir[j]
              THEN Exc("OSError")
              ELSE IF results[j] = {}
                   THEN IF done(logText[j])
                        THEN Ret(1, j, "LOG")
                        ELSE Ret(0, j, "LOG")
                   ELSE Ret(0, j, "LOG")
         ELSE Ret(0, j, None)
    ELSE Ret(0, None, None)

\* status() reading the log before it lists the results directory.
status_log_first(j) ==
    IF run[j]
    THEN IF logs[j] = 1
         THEN IF ~resDir[j]
              THEN Exc("OSError")
              ELSE IF done(logText[j])
                   THEN Ret(1, j, "LOG")
                   ELSE Ret(0, j, "LOG")
         ELSE IF logs[j] = 0
              THEN Ret(0, j, None)
              ELSE Exc("AssertionError")
    ELSE Ret(0, None, None)

status(j) ==
    IF run[j]
    THEN IF logs[j] = 1
         THEN IF ~resDir[j]
              THEN Exc("OSError")
              ELSE IF results[j] = {}
                   THEN IF done(logText[j])
                        THEN Ret(1, j, "LOG")
                        ELSE Ret(0, j, "LOG")
                   ELSE Ret(0, j, "LOG")
         ELSE IF logs[j] = 0
              THEN Ret(0, j, None)
              ELSE Exc("AssertionError")
    ELSE Ret(0, None, None)

\* ------------------------------------------------------------------------
\* Initial states
\* ------------------------------------------------------------------------
\* Nothing stored, nothing submitted, no pass running.
Fresh ==
    /\ durable = [j \in Jobs |-> NoDurable]
    /\ blob = [j \in Jobs |-> NoBlob]
    /\ submits = [j \in Jobs |-> 0]
    /\ pipeline = "dropseqtools"
    /\ pc = "idle"
    /\ queue = <<>>
    /\ cur = None
    /\ det = NoDet
    /\ trace = <<>>
    /\ snap = {}
    /\ raised = "none"
    /\ stops = 0
    /\ other = NotStarted

\* One descriptor delivered to the working directory, nothing run yet.
Init ==
    /\ desc = [j \in Jobs |-> j = "job7"]
    /\ script = [j \in Jobs |-> FALSE]
    /\ run = [j \in Jobs |-> FALSE]
    /\ resDir = [j \in Jobs |-> FALSE]
    /\ logs = [j \in Jobs |-> 0]
    /\ logText = [j \in Jobs |-> <<>>]
    /\ results = [j \in Jobs |-> {}]
    /\ cluster = [j \in Jobs |-> "none"]
    /\ Fresh
    /\ dirs = Dirs
    /\ archive = [j \in Jobs |-> NoArchive]

\* What a cluster job can have left of a descriptor's run.
Absent == [run |-> FALSE, logs |-> 0, resDir |-> FALSE, text |-> <<>>, results |-> {}]

Evidence ==
    { Absent,
      [run |-> TRUE, logs |-> 0, resDir |-> FALSE, text |-> <<>>, results |-> {}],
      [run |-> TRUE, logs |-> 1, resDir |-> FALSE, text |-> <<<<"t">>>>, results |-> {}],
      [run |-> TRUE, logs |-> 1, resDir |-> TRUE, text |-> <<<<"t">>>>, results |-> {}],
      [run |-> TRUE, logs |-> 1, resDir |-> TRUE, text |-> <<<<"t">>, <<"K", "w">>>>, results |-> {}],
      [run |-> TRUE, logs |-> 1, resDir |-> TRUE, text |-> <<<<"t">>>>, results |-> ResultFiles],
      [run |-> TRUE, logs |-> 2, resDir |-> TRUE, text |-> <<<<"t">>>>, results |-> {}] }

\* Every combination of evidence status() can be handed for one descriptor
\* (text is the content of the log file when there is exactly one).
AllEvidence ==
    {Absent} \cup
    { e \in [run : {TRUE}, logs : 0..MaxLogFiles, resDir : BOOLEAN,
             text : LogTexts, results : SUBSET ResultFiles] :
        /\ e.logs # 1 => e.text = <<>>
        /\ ~e.resDir => e.results = {} }

Given(ev) ==
    /\ run = [j \in Jobs |-> ev[j].run]
    /\ resDir = [j \in Jobs |-> ev[j].resDir]
    /\ logs = [j \in Jobs |-> ev[j].logs]
    /\ logText = [j \in Jobs |-> ev[j].text]
    /\ results = [j \in Jobs |-> ev[j].results]
    /\ script = [j \in Jobs |-> ev[j].run]
    /\ cluster = [j \in Jobs |-> IF ev[j].run THEN "started" ELSE "none"]

\* Two descriptors in the working directory, each with the evidence some
\* cluster job has left; the cluster is quiet while the passes run.
InitBatch ==
    /\ desc = [j \in Jobs |-> TRUE]
    /\ \E ev \in [Jobs -> Evidence] : Given(ev)
    /\ Fresh
    /\ dirs = Dirs
    /\ archive = [j \in Jobs |-> NoArchive]

\* One descriptor with any evidence, about to be examined by a pass.
InitDetect ==
    /\ desc = [j \in Jobs |-> j = "job7"]
    /\ \E e \in AllEvidence : Given([j \in Jobs |-> IF j = "job7" THEN e ELSE Absent])
    /\ Fresh
    /\ dirs = Dirs
    /\ archive = [j \in Jobs |-> NoArchive]

\* Any of the directories of args missing; one descriptor, if there is a
\* working directory to hold it.
InitConfig ==
    /\ dirs \in SUBSET Dirs
    /\ desc = [j \in Jobs |-> j = "job7" /\ "work_dir" \in dirs]
    /\ \E e \in Evidence :
           Given([j \in Jobs |-> IF j = "job7" /\ "work_dir" \in dirs THEN e ELSE Absent])
    /\ Fresh
    /\ archive = [j \in Jobs |-> NoArchive]

\* A run directory with any of the evidence, and beside it an archive of an
\* earlier call, or none.
InitArchive ==
    /\ desc = [j \in Jobs |-> j = "job7"]
    /\ \E e \in Evidence : Given([j \in Jobs |-> IF j = "job7" THEN e ELSE Absent])
    /\ Fresh
    /\ dirs = Dirs
    /\ archive \in [Jobs -> {NoArchive} \cup [there : {TRUE}, of : SUBSET ResultFiles]]
    /\ archive["job8"] = NoArchive

\* ------------------------------------------------------------------------
\* How a pass ends before the loop is over
\* ------------------------------------------------------------------------
\* An exception nothing in main() catches: the process exits with a traceback.
Raise(x, ev) ==
    /\ pc' = "exit"
    /\ raised' = x
    /\ trace' = Append(trace, ev)
    /\ UNCHANGED <<pipeline, queue, cur, det, snap, ext>>

Goto(next, ev) ==
    /\ pc' = next
    /\ trace' = Append(trace, ev)
    /\ UNCHANGED <<pipeline, queue, cur, det, snap, raised, ext>>

\* ------------------------------------------------------------------------
\* The functions main() calls, on job j, with the outcome of their I/O
\* ------------------------------------------------------------------------
\* make_tarfile() without the test for the output file.
make_tarfile_overwrite(j, next) ==
    /\ archive' = [archive EXCEPT ![j] = [there |-> TRUE, of |-> results[j]]]
    /\ pc' = next
    /\ trace' = Append(trace, <<"make_tarfile", j>>)
    /\ raised' = IF run[j] THEN raised ELSE "OSError"
    /\ UNCHANGED <<wd, stores, sched, pipeline, queue, cur, det, snap, stops, dirs, other>>

\* make_tarfile(output_filename, source_dir, logger): tarfile.open creates
\* the output file, tar.add fills it from the run directory (and raises when
\* there is none); an output file that exists is left alone.
make_tarfile(j, next) ==
    /\ IF ~archive[j].there
       THEN /\ archive' = [archive EXCEPT ![j] = [there |-> TRUE, of |-> results[j]]]
            /\ trace' = Append(trace, <<"make_tarfile", j>>)
            /\ raised' = IF run[j] THEN raised ELSE "OSError"
       ELSE /\ UNCHANGED <<archive, raised>>
            /\ trace' = Append(trace, <<"make_tarfile exists", j>>)
    /\ pc' = next
    /\ UNCHANGED <<wd, stores, sched, pipeline, queue, cur, det, snap, stops, dirs, other>>

\* copy_files_aws(src, dest, logger): s3.upload_file; logs and re-raises.
copy_files_aws(j, what, ok, next) ==
    /\ IF ok
       THEN /\ blob' = [blob EXCEPT ![j] = [@ EXCEPT ![what] = TRUE]]
            /\ Goto(next, <<"copy_files_aws", what>>)
       ELSE /\ UNCHANGED blob
            /\ Raise("S3UploadFailedError", <<"copy_files_aws failed", what>>)
    /\ UNCHANGED <<wd, durable, sched>>

\* How shutil.copytree can end: done, failed before or after it made the
\* destination directory, or the process stopped while it was copying.
CopyOutcomes == {"ok", "error before", "error midway", "stopped midway"}

\* copy_dir(src, dest, logger): shutil.copytree; EEXIST is a warning, any
\* other error is re-raised and leaves what was copied so far.
copy_dir(j, io, next) ==
    /\ IF durable[j].st # "absent"
       THEN /\ UNCHANGED durable
            /\ Goto(next, <<"copy_dir exists", "">>)
       ELSE IF io = "ok"
       THEN /\ durable' = [durable EXCEPT ![j] = [st |-> "full", results |-> results[j]]]
            /\ Goto(next, <<"copy_dir", "">>)
       ELSE IF io = "error before"
       THEN /\ UNCHANGED durable
            /\ Raise("OSError", <<"copy_dir failed", "">>)
       ELSE IF io = "error midway"
       THEN /\ durable' = [durable EXCEPT ![j] = [st |-> "partial", results |-> {}]]
            /\ Raise("OSError", <<"copy_dir failed", "">>)
       ELSE /\ durable' = [durable EXCEPT ![j] = [st |-> "partial", results |-> {}]]
            /\ pc' = "exit"
            /\ raised' = "stopped"
            /\ UNCHANGED <<pipeline, queue, cur, det, trace, snap, ext>>
    /\ UNCHANGED <<wd, blob, sched>>

\* The pipelines remove_unnecessary_intermediates has a suffix list for.
Recognized == {"dropseqtools"}

\* The suffix list of dropseqtools, whatever the pipeline.
suffixes_to_remove_default(p) == {".sam$", ".tagged.bam$"}

\* suffixes_to_remove of remove_unnecessary_intermediates, by pipeline.
suffixes_to_remove(p) == IF p = "dropseqtools" THEN {".sam$", ".tagged.bam$"} ELSE {}

\* re.compile('[\w\d]+' + suffix).match(f), on the names of ResultFiles.
match(suffix, f) == <<suffix, f>> \in {<<".sam$", "reads.sam">>}

\* remove_unnecessary_intermediates(res, logger, pipeline)
remove_unnecessary_intermediates(j, next) ==
    /\ IF suffixes_to_remove(pipeline) # {} /\ ~resDir[j]
       THEN /\ UNCHANGED results
            /\ Raise("OSError", <<"remove_unnecessary_intermediates failed", "">>)
       ELSE /\ results' = [results EXCEPT ![j] =
                  {f \in @ : ~\E s \in suffixes_to_remove(pipeline) : match(s, f)}]
            /\ Goto(next, <<"remove_unnecessary_intermediates", "">>)
    /\ UNCHANGED <<desc, script, run, resDir, logs, logText, stores, sched>>

\* copy_dir_aws(src, bucket, logger): aws s3 cp --recursive; an error is
\* logged and not re-raised.
copy_dir_aws(j, ok, next) ==
    /\ IF ok
       THEN /\ blob' = [blob EXCEPT ![j] =
                  [@ EXCEPT !.mirrored = TRUE, !.mirror = @ \cup results[j]]]
            /\ Goto(next, <<"copy_dir_aws", "">>)
       ELSE /\ UNCHANGED blob
            /\ Goto(next, <<"copy_dir_aws failed", "">>)
    /\ UNCHANGED <<wd, durable, sched>>

\* remove() calling shutil.rmtree(to_remove, ignore_errors=True).
remove_ignore_errors(j, next) ==
    /\ run' = [run EXCEPT ![j] = FALSE]
    /\ resDir' = [resDir EXCEPT ![j] = FALSE]
    /\ logs' = [logs EXCEPT ![j] = 0]
    /\ logText' = [logText EXCEPT ![j] = <<>>]
    /\ results' = [results EXCEPT ![j] = {}]
    /\ Goto(next, <<"remove", "">>)
    /\ UNCHANGED <<desc, script, stores, sched>>

\* remove(to_remove, logger): shutil.rmtree, then os.remove on OSError.
remove(j, next) ==
    /\ IF run[j]
       THEN /\ run' = [run EXCEPT ![j] = FALSE]
            /\ resDir' = [resDir EXCEPT ![j] = FALSE]
            /\ logs' = [logs EXCEPT ![j] = 0]
            /\ logText' = [logText EXCEPT ![j] = <<>>]
            /\ results' = [results EXCEPT ![j] = {}]
            /\ Goto(next, <<"remove", "">>)
       ELSE /\ UNCHANGED <<run, resDir, logs, logText, results>>
            /\ Raise("OSError", <<"remove failed", "">>)
    /\ UNCHANGED <<desc, script, stores, sched>>

\* remove_file(to_remove, logger): os.remove if the path exists.
remove_file(j, next) ==
    /\ desc' = [desc EXCEPT ![j] = FALSE]
    /\ Goto(next, <<"remove_file", "">>)
    /\ UNCHANGED <<script, run, resDir, logs, logText, results, stores, sched>>

\* submit_job() without the check for the wrapper script.
submit_job_unguarded(j, next) ==
    /\ submits[j] < MaxSubmits
    /\ script' = [script EXCEPT ![j] = TRUE]
    /\ submits' = [submits EXCEPT ![j] = @ + 1]
    /\ cluster' = [cluster EXCEPT ![j] = IF @ = "none" THEN "queued" ELSE @]
    /\ Goto(next, <<"submit_job", "">>)
    /\ UNCHANGED <<desc, run, resDir, logs, logText, results, stores>>

\* Submitter(..., sh=bash_script, submit=True) of qtools: writes the wrapper
\* script and submits it.
Submitter(j, next) ==
    /\ submits[j] < MaxSubmits
    /\ script' = [script EXCEPT ![j] = TRUE]
    /\ submits' = [submits EXCEPT ![j] = @ + 1]
    /\ cluster' = [cluster EXCEPT ![j] = IF @ = "none" THEN "queued" ELSE @]
    /\ Goto(next, <<"submit_job", "">>)
    /\ UNCHANGED <<desc, run, resDir, logs, logText, results, stores>>

\* submit_job(fn, work_dir, logger, pipeline): the test for the wrapper
\* script; the call of Submitter follows it as a step of its own.
submit_job(j, next) ==
    /\ IF ~script[j]
       THEN /\ pc' = "unsubmitted: Submitter"
            /\ UNCHANGED <<pipeline, queue, cur, det, trace, snap, raised, ext>>
       ELSE Goto(next, <<"submit_job exists", "">>)
    /\ UNCHANGED <<wd, stores, sched>>

\* ------------------------------------------------------------------------
\* main(): one pass
\* ------------------------------------------------------------------------
\* jsonlike_files = glob.glob(os.path.join(work_dir, '*.json')), in any order
\* The directory is there: it was from the start, or shutil.copytree has
\* made results_dir on the way to a job's copy.
Exists(d) == d \in dirs \/ (d = "results_dir" /\ \E j \in Jobs : durable[j].st # "absent")

\* main() globbing '*.json*', which the wrapper scripts <j>.json.sh match too.
StartPass_scripts(p, order) ==
    /\ pc = "idle"
    /\ pipeline' = p
    /\ queue' \in Perms({j \in Jobs : desc[j] \/ script[j]})
    /\ pc' = "loop"
    /\ raised' = "none"
    /\ cur' = None
    /\ det' = NoDet
    /\ trace' = <<>>
    /\ snap' = {}
    /\ UNCHANGED <<wd, stores, sched, ext>>

\* main() with log handlers that open their files at the first record.
StartPass_delay(p, order) ==
    /\ pc = "idle"
    /\ order \in Perms({j \in Jobs : desc[j]})
    /\ pipeline' = p
    /\ queue' = order
    /\ pc' = "loop"
    /\ raised' = "none"
    /\ cur' = None
    /\ det' = NoDet
    /\ trace' = <<>>
    /\ snap' = {}
    /\ UNCHANGED <<wd, stores, sched, ext>>

\* main() up to the loop: the arguments, the glob, and the log handlers,
\* which open <log_dir>/status.txt and status.err at once.
StartPass(p, order) ==
    /\ pc = "idle"
    /\ order \in Perms({j \in Jobs : desc[j]})
    /\ pipeline' = p
    /\ IF Exists("log_dir")
       THEN /\ queue' = order
            /\ pc' = "loop"
            /\ raised' = "none"
       ELSE /\ queue' = <<>>
            /\ pc' = "exit"
            /\ raised' = "IOError"
    /\ cur' = None
    /\ det' = NoDet
    /\ trace' = <<>>
    /\ snap' = {}
    /\ UNCHANGED <<wd, stores, sched, ext>>

\* for jsonlike in jsonlike_files
ForLoop ==
    /\ pc = "loop"
    /\ IF queue = <<>>
       THEN /\ pc' = "exit"
            /\ UNCHANGED <<queue, cur, det, trace, snap>>
       ELSE /\ cur' = Head(queue)
            /\ queue' = Tail(queue)
            /\ pc' = "status"
            /\ det' = NoDet
            /\ trace' = <<>>
            /\ snap' = {}
    /\ UNCHANGED <<wd, stores, sched, pipeline, raised, ext>>

\* error, res, log_file = status(jsonlike, logger)
Status ==
    /\ pc = "status"
    /\ LET r == status(cur) IN
       IF r.exc # None
       THEN Raise(r.exc, <<"status failed", "">>)
       ELSE /\ det' = [error |-> r.error, res |-> r.res, log |-> r.log]
            /\ pc' = "dispatch"
            /\ UNCHANGED <<pipeline, queue, cur, trace, snap, raised>>
    /\ UNCHANGED <<wd, stores, sched, ext>>

\* The lifecycle state main() acts on: the branch it takes on status()'s
\* tuple and on os.listdir(os.path.join(res, 'results')).
Lifecycle(d, listing) ==
    IF d.error = 1 THEN "Failed"
    ELSE IF d.res = None THEN "Unsubmitted"
    ELSE IF d.log = None THEN "Queued"
    ELSE IF listing # {} THEN "Succeeded"
    ELSE "Running"

\* The branches of main() without the one for a run directory with no log.
FirstStep_no_queued(state) ==
    CASE state = "Failed" -> "failed: copy_files_aws"
      [] state = "Unsubmitted" -> "unsubmitted: submit_job"
      [] state \in {"Queued", "Running"} -> "running: copy_files_aws"
      [] state = "Succeeded" -> "succeeded: copy_files_aws"

\* The first call of the branch main() takes.
FirstStep(state) ==
    CASE state = "Failed" -> "failed: copy_files_aws"
      [] state = "Unsubmitted" -> "unsubmitted: submit_job"
      [] state = "Queued" -> "loop"
      [] state = "Succeeded" -> "succeeded: copy_files_aws"
      [] state = "Running" -> "running: copy_files_aws"

Dispatch ==
    /\ pc = "dispatch"
    /\ IF det.error = 0 /\ det.res # None /\ det.log # None /\ ~resDir[cur]
       THEN Raise("OSError", <<"listdir failed", "">>)
       ELSE /\ pc' = FirstStep(Lifecycle(det, results[cur]))
            /\ snap' = results[cur]
            /\ UNCHANGED <<pipeline, queue, cur, det, trace, raised>>
    /\ UNCHANGED <<wd, stores, sched, ext>>

\* error == 1: job failed
Failed_copy_files_aws(ok) ==
    /\ pc = "failed: copy_files_aws"
    /\ copy_files_aws(cur, "desc", ok, "failed: copy_dir")

Failed_copy_dir(io) ==
    /\ pc = "failed: copy_dir"
    /\ copy_dir(cur, io, "failed: remove")

Failed_remove ==
    /\ pc = "failed: remove"
    /\ remove(cur, "failed: remove_file")

Failed_remove_file ==
    /\ pc = "failed: remove_file"
    /\ remove_file(cur, "loop")

\* res == None: job hasn't run yet
Unsubmitted_submit_job ==
    /\ pc = "unsubmitted: submit_job"
    /\ submit_job(cur, "loop")

Unsubmitted_Submitter ==
    /\ pc = "unsubmitted: Submitter"
    /\ Submitter(cur, "loop")

\* results found: job is finished
Succeeded_copy_files_aws(ok) ==
    /\ pc = "succeeded: copy_files_aws"
    /\ copy_files_aws(cur, "desc", ok, "succeeded: copy_dir")

Succeeded_copy_dir(io) ==
    /\ pc = "succeeded: copy_dir"
    /\ copy_dir(cur, io, "succeeded: remove_unnecessary_intermediates")

Succeeded_remove_unnecessary_intermediates ==
    /\ pc = "succeeded: remove_unnecessary_intermediates"
    /\ remove_unnecessary_intermediates(cur, "succeeded: copy_dir_aws")

Succeeded_copy_dir_aws(ok) ==
    /\ pc = "succeeded: copy_dir_aws"
    /\ copy_dir_aws(cur, ok, "succeeded: remove")

Succeeded_remove ==
    /\ pc = "succeeded: remove"
    /\ remove(cur, "succeeded: remove_file")

Succeeded_remove_file ==
    /\ pc = "succeeded: remove_file"
    /\ remove_file(cur, "loop")

\* The Running branch also making the backup copy of the run directory.
Running_copy_and_backup(ok) ==
    /\ pc = "running: copy_files_aws"
    /\ blob' = [blob EXCEPT ![cur] = [@ EXCEPT !.log = ok]]
    /\ durable' = [durable EXCEPT ![cur] = [st |-> "full", results |-> results[cur]]]
    /\ Goto("loop", <<"copy_files_aws", "log">>)
    /\ UNCHANGED <<wd, sched>>

\* job still running
Running_copy_files_aws(ok) ==
    /\ pc = "running: copy_files_aws"
    /\ copy_files_aws(cur, "log", ok, "loop")

\* The process is stopped from outside (kill, reboot, walltime) mid-pass.
Interrupt(n) ==
    /\ pc \notin {"idle", "exit"}
    /\ pc' = "exit"
    /\ raised' = "stopped"
    /\ stops' = n
    /\ UNCHANGED <<dirs, archive, other>>
    /\ UNCHANGED <<wd, stores, sched, pipeline, queue, cur, det, trace, snap>>

Stop == Interrupt(stops)

\* The process is gone; nothing of it survives but the files.
Exit ==
    /\ pc = "exit"
    /\ pc' = "idle"
    /\ pipeline' = "dropseqtools"
    /\ queue' = <<>>
    /\ cur' = None
    /\ det' = NoDet
    /\ trace' = <<>>
    /\ snap' = {}
    /\ raised' = "none"
    /\ UNCHANGED <<wd, stores, sched, ext>>

\* ------------------------------------------------------------------------
\* The cluster job that the wrapper script runs: it creates the run
\* directory, its log file(s) and results directory, and writes into them.
\* ------------------------------------------------------------------------
\* The job writes as long as its run directory is there and its engine has
\* not written its last line.
Executing(j) == cluster[j] = "started" /\ run[j] /\ ~done(logText[j])

Scheduler_start(j) ==
    /\ cluster[j] = "queued"
    /\ ~run[j]
    /\ cluster' = [cluster EXCEPT ![j] = "started"]
    /\ run' = [run EXCEPT ![j] = TRUE]
    /\ UNCHANGED <<desc, script, resDir, logs, logText, results, stores, submits, ctl, ext>>

Scheduler_log(j) ==
    /\ Executing(j)
    /\ logs[j] < MaxLogFiles
    /\ logs' = [logs EXCEPT ![j] = @ + 1]
    /\ UNCHANGED <<desc, script, run, resDir, logText, results, stores, sched, ctl, ext>>

Scheduler_mkdir(j) ==
    /\ Executing(j)
    /\ ~resDir[j]
    /\ resDir' = [resDir EXCEPT ![j] = TRUE]
    /\ UNCHANGED <<desc, script, run, logs, logText, results, stores, sched, ctl, ext>>

Scheduler_write(j, line) ==
    /\ Executing(j)
    /\ logs[j] >= 1
    /\ Len(logText[j]) < MaxLogLines
    /\ logText' = [logText EXCEPT ![j] = Append(@, line)]
    /\ UNCHANGED <<desc, script, run, resDir, logs, results, stores, sched, ctl, ext>>

Scheduler_result(j, f) ==
    /\ Executing(j)
    /\ resDir[j]
    /\ f \notin results[j]
    /\ results' = [results EXCEPT ![j] = @ \cup {f}]
    /\ UNCHANGED <<desc, script, run, resDir, logs, logText, stores, sched, ctl, ext>>

Next ==
    \/ \E p \in Pipelines : \E order \in Perms({j \in Jobs : desc[j]}) : StartPass(p, order)
    \/ ForLoop
    \/ Status
    \/ Dispatch
    \/ \E ok \in BOOLEAN : Failed_copy_files_aws(ok)
    \/ \E io \in CopyOutcomes : Failed_copy_dir(io)
    \/ Failed_remove
    \/ Failed_remove_file
    \/ Unsubmitted_submit_job
    \/ Unsubmitted_Submitter
    \/ \E ok \in BOOLEAN : Succeeded_copy_files_aws(ok)
    \/ \E io \in CopyOutcomes : Succeeded_copy_dir(io)
    \/ Succeeded_remove_unnecessary_intermediates
    \/ \E ok \in BOOLEAN : Succeeded_copy_dir_aws(ok)
    \/ Succeeded_remove
    \/ Succeeded_remove_file
    \/ \E ok \in BOOLEAN : Running_copy_files_aws(ok)
    \/ Stop
    \/ Exit
    \/ \E j \in Jobs : Scheduler_start(j)
    \/ \E j \in Jobs : Scheduler_log(j)
    \/ \E j \in Jobs : Scheduler_mkdir(j)
    \/ \E j \in Jobs : \E line \in SchedulerLines : Scheduler_write(j, line)
    \/ \E j \in Jobs : \E f \in ResultFiles : Scheduler_result(j, f)

Spec == Init /\ [][Next]_vars

\* The pass alone, on what the cluster has left.
Pass ==
    \/ \E p \in Pipelines : \E order \in Perms({j \in Jobs : desc[j]}) : StartPass(p, order)
    \/ ForLoop
    \/ Status
    \/ Dispatch
    \/ \E ok \in BOOLEAN : Failed_copy_files_aws(ok)
    \/ \E io \in CopyOutcomes : Failed_copy_dir(io)
    \/ Failed_remove
    \/ Failed_remove_file
    \/ Unsubmitted_submit_job
    \/ Unsubmitted_Submitter
    \/ \E ok \in BOOLEAN : Succeeded_copy_files_aws(ok)
    \/ \E io \in CopyOutcomes : Succeeded_copy_dir(io)
    \/ Succeeded_remove_unnecessary_intermediates
    \/ \E ok \in BOOLEAN : Succeeded_copy_dir_aws(ok)
    \/ Succeeded_remove
    \/ Succeeded_remove_file
    \/ \E ok \in BOOLEAN : Running_copy_files_aws(ok)
    \/ Stop
    \/ Exit

SpecBatch == InitBatch /\ [][Pass]_vars

\* make_tarfile called on its own, as the script ends.
Archive_make_tarfile(j) ==
    /\ pc = "idle"
    /\ make_tarfile(j, "exit")

\* The archiver called again and again beside a job that may still write.
Archive ==
    \/ \E j \in {"job7"} : Archive_make_tarfile(j)
    \/ Exit
    \/ \E j \in Jobs : Scheduler_log(j)
    \/ \E j \in Jobs : Scheduler_mkdir(j)
    \/ \E j \in Jobs : \E line \in SchedulerLines : Scheduler_write(j, line)
    \/ \E j \in Jobs : \E f \in ResultFiles : Scheduler_result(j, f)

SpecArchive == InitArchive /\ [][Archive]_vars

\* The operating system takes the processor from one invocation of the
\* script and gives it to the other.
Switch ==
    /\ other # [pipeline |-> pipeline, pc |-> pc, queue |-> queue, cur |-> cur,
                det |-> det, trace |-> trace, snap |-> snap, raised |-> raised]
    /\ other' = [pipeline |-> pipeline, pc |-> pc, queue |-> queue, cur |-> cur,
                 det |-> det, trace |-> trace, snap |-> snap, raised |-> raised]
    /\ pipeline' = other.pipeline
    /\ pc' = other.pc
    /\ queue' = other.queue
    /\ cur' = other.cur
    /\ det' = other.det
    /\ trace' = other.trace
    /\ snap' = other.snap
    /\ raised' = other.raised
    /\ UNCHANGED <<wd, stores, sched, stops, dirs, archive>>

\* Two invocations of the script over the same working directory, each
\* making one pass, every transfer succeeding.
Race ==
    \/ \E p \in Pipelines : \E order \in Perms({j \in Jobs : desc[j]}) : StartPass(p, order)
    \/ ForLoop
    \/ Status
    \/ Dispatch
    \/ Failed_copy_files_aws(TRUE)
    \/ Failed_copy_dir("ok")
    \/ Failed_remove
    \/ Failed_remove_file
    \/ Unsubmitted_submit_job
    \/ Unsubmitted_Submitter
    \/ Succeeded_copy_files_aws(TRUE)
    \/ Succeeded_copy_dir("ok")
    \/ Succeeded_remove_unnecessary_intermediates
    \/ Succeeded_copy_dir_aws(TRUE)
    \/ Succeeded_remove
    \/ Succeeded_remove_file
    \/ Running_copy_files_aws(TRUE)
    \/ Switch

SpecRace == InitBatch /\ [][Race]_vars

\* The pass on any configuration of directories.
SpecConfig == InitConfig /\ [][Pass]_vars

\* Detection and the branch main() takes on it.
Detect ==
    \/ \E p \in Pipelines : \E order \in Perms({j \in Jobs : desc[j]}) : StartPass(p, order)
    \/ ForLoop
    \/ Status
    \/ Dispatch

SpecDetect == InitDetect /\ [][Detect]_vars

\* Passes re-run by the periodic invocation, every transfer succeeding, the
\* pass stopped from outside at most MaxStops times.
Resume ==
    \/ \E p \in Pipelines : \E order \in Perms({j \in Jobs : desc[j]}) : StartPass(p, order)
    \/ ForLoop
    \/ Status
    \/ Dispatch
    \/ Failed_copy_files_aws(TRUE)
    \/ Failed_copy_dir("ok")
    \/ Failed_remove
    \/ Failed_remove_file
    \/ Unsubmitted_submit_job
    \/ Unsubmitted_Submitter
    \/ Succeeded_copy_files_aws(TRUE)
    \/ Succeeded_copy_dir("ok")
    \/ Succeeded_remove_unnecessary_intermediates
    \/ Succeeded_copy_dir_aws(TRUE)
    \/ Succeeded_remove
    \/ Succeeded_remove_file
    \/ Running_copy_files_aws(TRUE)
    \/ Exit

StopOnce == stops < MaxStops /\ Interrupt(stops + 1)

Resumed ==
    \/ Resume
    \/ StopOnce

\* A started pass runs on, and the next pass is started, unless stopped.
SpecResume == InitBatch /\ [][Resumed]_vars /\ WF_vars(Resume)

\* ------------------------------------------------------------------------
\* Vocabulary of the properties
\* ------------------------------------------------------------------------
\* status() has returned for the current descriptor and main() acts on it.
Detected == pc \notin {"idle", "loop", "status", "exit"}

\* The calls of the current job's sequence that reported a failed upload or copy.
FailedTransfers == {"copy_files_aws failed", "copy_dir failed", "copy_dir_aws failed"}

Deletions == {"remove", "remove_file"}

\* What a call of the sequence is, in the words of the action table.
Kind(ev) ==
    CASE ev = <<"copy_files_aws", "desc">> -> "upload descriptor"
      [] ev = <<"copy_files_aws", "log">> -> "upload log"
      [] ev[1] = "copy_dir_aws" -> "upload results"
      [] ev[1] \in {"copy_dir", "copy_dir exists"} -> "copy to durable store"
      [] ev[1] = "remove_unnecessary_intermediates" -> "prune"
      [] ev[1] = "remove" -> "delete run directory"
      [] ev[1] = "remove_file" -> "delete descriptor"
      [] ev[1] \in {"submit_job", "submit_job exists"} -> "submit"
      [] OTHER -> "failed"

Kinds(t) == [i \in DOMAIN t |-> Kind(t[i])]

\* The current job's sequence has run to its last call.
SequenceDone == trace # <<>> /\ trace[Len(trace)][1] = "remove_file"

\* Some line carries a terminal marker: a success phrase or the cancellation
\* marker followed by nothing but whitespace, or the permanent-failure text.
HasTerminalLine(text) ==
    \E i \in DOMAIN text : \E k \in DOMAIN text[i] :
        \/ text[i][k] = "P"
        \/ /\ text[i][k] \in {"S", "J", "K"}
           /\ \A m \in (k + 1)..Len(text[i]) : text[i][m] = "w"

\* ------------------------------------------------------------------------
\* C1: the run directory and the descriptor are deleted only after every
\* upload and copy of the job's sequence succeeded or was skipped as done;
\* when an upload or copy of the sequence failed, both are still in the
\* working directory when the pass ends.
\* ------------------------------------------------------------------------
C1_DeletionOnlyAfterTransfers ==
    /\ \A i \in DOMAIN trace :
           trace[i][1] \in Deletions =>
               \A k \in 1..(i - 1) : trace[k][1] \notin FailedTransfers
    /\ (pc = "exit" /\ \E i \in DOMAIN trace : trace[i][1] \in FailedTransfers)
           => run[cur] /\ desc[cur]

\* ------------------------------------------------------------------------
\* C2: when an upload or copy of a job's sequence fails, no later step of the
\* sequence runs, and the run directory, the descriptor and every results
\* file the sequence started with are still there.
\* ------------------------------------------------------------------------
C2_FailureAbortsSequence ==
    \A i \in DOMAIN trace :
        trace[i][1] \in FailedTransfers =>
            /\ i = Len(trace)
            /\ run[cur] /\ desc[cur]
            /\ snap \subseteq results[cur]

JobError ==
    \/ raised = "AssertionError"
    \/ \E i \in DOMAIN trace : trace[i][1] \in FailedTransfers

\* ------------------------------------------------------------------------
\* C3: when detection signals more than one log file for a job, or an upload
\* or copy of its sequence fails, the pass still processes every other
\* descriptor it discovered: it does not end with descriptors left over.
\* ------------------------------------------------------------------------
C3_EveryDescriptorProcessed ==
    (pc = "exit" /\ raised # "stopped" /\ JobError) => queue = <<>>

\* ------------------------------------------------------------------------
\* C4: with a run directory, exactly one log file and a non-empty results
\* directory, status() returns (0, run_dir, log_file) and main() starts the
\* Succeeded sequence, whatever the log contains.
\* ------------------------------------------------------------------------
C4_ResultsWin ==
    \A j \in Jobs :
        (Detected /\ cur = j /\ run[j] /\ logs[j] = 1 /\ results[j] # {}) =>
            /\ det = [error |-> 0, res |-> j, log |-> "LOG"]
            /\ pc \in {"dispatch", "succeeded: copy_files_aws"}

C4_SucceededDespiteMarker ==
    /\ pc = "succeeded: copy_files_aws"
    /\ logs[cur] = 1
    /\ results[cur] # {}
    /\ HasTerminalLine(logText[cur])

\* ------------------------------------------------------------------------
\* C5: with a run directory, exactly one log file and an empty results
\* directory, the job is Failed if and only if a line of the log carries a
\* terminal marker, and Running otherwise.
\* ------------------------------------------------------------------------
C5_FailedIffTerminalMarker ==
    \A j \in Jobs :
        (Detected /\ cur = j /\ run[j] /\ logs[j] = 1 /\ resDir[j] /\ results[j] = {}) =>
            IF HasTerminalLine(logText[j])
            THEN /\ det = [error |-> 1, res |-> j, log |-> "LOG"]
                 /\ pc \in {"dispatch", "failed: copy_files_aws"}
            ELSE /\ det = [error |-> 0, res |-> j, log |-> "LOG"]
                 /\ pc \in {"dispatch", "running: copy_files_aws"}

C5_FailedOnPaddedMarker ==
    /\ pc = "failed: copy_files_aws"
    /\ results[cur] = {}
    /\ \E i \in DOMAIN logText[cur] :
           /\ Len(logText[cur][i]) >= 2
           /\ logText[cur][i][Len(logText[cur][i])] = "w"
           /\ logText[cur][i][1] \in {"S", "J", "K"}

C6_Once ==
    \A j \in Jobs :
        /\ submits[j] = (IF script[j] THEN 1 ELSE 0)
        /\ (pc = "dispatch" /\ cur = j /\ ~run[j]) => det = NoDet
        /\ (cur = j /\ trace # <<>> /\ Kind(trace[1]) = "submit") => submits[j] = 1

\* ------------------------------------------------------------------------
\* C6: a descriptor with no run directory is detected as Unsubmitted, and
\* Submitter is called for it exactly once, by the pass that finds no wrapper
\* script; a pass that finds the wrapper script changes nothing.
\* ------------------------------------------------------------------------
C6_SubmitOnce ==
    /\ []C6_Once
    /\ [][(pc = "unsubmitted: submit_job" /\ script[cur] /\ pc' # pc /\ raised' # "stopped")
            => (pc' = "loop" /\ UNCHANGED <<wd, stores, sched>>)]_vars

C6_SecondPassSkips ==
    /\ trace = << <<"submit_job exists", "">> >>
    /\ ~run[cur]
    /\ submits[cur] = 1

C7_RunningStep ==
    (pc = "running: copy_files_aws" /\ pc' # pc /\ raised' # "stopped") =>
        /\ UNCHANGED <<wd, durable, sched>>
        /\ \/ /\ pc' = "loop"
              /\ trace' = << <<"copy_files_aws", "log">> >>
              /\ blob' = [blob EXCEPT ![cur] = [@ EXCEPT !.log = TRUE]]
           \/ /\ pc' = "exit"
              /\ blob' = blob

\* ------------------------------------------------------------------------
\* C7: for a Running job the pass uploads the log file, once, and changes
\* nothing else: the working directory, the durable store and the
\* submissions are as they were.
\* ------------------------------------------------------------------------
C7_RunningOnlyUploadsLog ==
    /\ [](pc = "running: copy_files_aws" =>
            /\ det = [error |-> 0, res |-> cur, log |-> "LOG"]
            /\ snap = {}
            /\ trace = <<>>)
    /\ [][C7_RunningStep]_vars

C7_LogUploaded ==
    /\ pc = "loop"
    /\ trace = << <<"copy_files_aws", "log">> >>
    /\ blob[cur].log
    /\ run[cur] /\ desc[cur] /\ logs[cur] = 1
    /\ durable[cur] = NoDurable

\* ------------------------------------------------------------------------
\* C8: a completed Succeeded sequence is, in this order and with none left
\* out: upload the descriptor, upload the results, copy to the durable store,
\* prune, upload the pruned results, delete the run directory, delete the
\* descriptor.
\* ------------------------------------------------------------------------
C8_SucceededOrder ==
    (SequenceDone /\ Lifecycle(det, snap) = "Succeeded") =>
        Kinds(trace) = <<"upload descriptor", "upload results", "copy to durable store",
                         "prune", "upload results", "delete run directory",
                         "delete descriptor">>

\* ------------------------------------------------------------------------
\* C9: a completed Failed sequence is, in this order: upload the log file,
\* upload the descriptor, copy the run directory to the durable store, delete
\* the run directory, delete the descriptor; the durable copy is there
\* afterwards.
\* ------------------------------------------------------------------------
C9_FailedOrder ==
    (SequenceDone /\ Lifecycle(det, snap) = "Failed") =>
        /\ Kinds(trace) = <<"upload log", "upload descriptor", "copy to durable store",
                            "delete run directory", "delete descriptor">>
        /\ durable[cur].st # "absent"

\* ------------------------------------------------------------------------
\* C10: a job whose run directory holds more than one log file is skipped
\* with nothing submitted, uploaded, copied or deleted for it, and the pass
\* goes on to the next descriptor instead of ending on the error.
\* ------------------------------------------------------------------------
C10_StructuralErrorSkipsJob ==
    \A j \in Jobs :
        (run[j] /\ logs[j] > 1) =>
            /\ desc[j] /\ blob[j] = NoBlob /\ durable[j] = NoDurable /\ submits[j] = 0
            /\ (cur = j /\ pc = "exit") => raised \in {"none", "stopped"}

\* The pass takes a step of its own that is not its being stopped.
PassStep == pc' # pc /\ raised' # "stopped" /\ other' = other

\* ------------------------------------------------------------------------
\* C11: a run directory with no log file is detected as Queued (no error,
\* the run directory, no log file), and main() does nothing for that job:
\* nothing is submitted, uploaded, copied or deleted, no call is made, and
\* the descriptor stays for the next pass.
\* ------------------------------------------------------------------------
C11_QueuedNoAction ==
    [][/\ (pc = "status" /\ run[cur] /\ logs[cur] = 0 /\ PassStep) =>
            /\ det' = [error |-> 0, res |-> cur, log |-> None]
            /\ pc' = "dispatch"
       /\ (pc = "dispatch" /\ Lifecycle(det, results[cur]) = "Queued" /\ PassStep) =>
            /\ pc' = "loop"
            /\ trace' = <<>>
            /\ desc'[cur]
            /\ UNCHANGED <<wd, stores, sched>>]_vars

C11_QueuedLeftAlone ==
    /\ pc = "loop" /\ cur # None
    /\ det = [error |-> 0, res |-> cur, log |-> None]
    /\ run[cur] /\ logs[cur] = 0
    /\ submits[cur] = 1 /\ blob[cur] = NoBlob /\ durable[cur] = NoDurable

\* The job's cleanup is complete: neither run directory nor descriptor is in
\* the working directory and the durable store holds the job's outputs.
Cleaned(j) == ~run[j] /\ ~desc[j] /\ durable[j].st = "full"

\* No run directory is one that status() or os.listdir() raises on.
NoBrokenJob == \A k \in Jobs : run[k] => (logs[k] <= 1 /\ (logs[k] = 1 => resDir[k]))

\* The pass was stopped after some call of j's Succeeded or Failed sequence.
StoppedInSequence(j) ==
    /\ pc = "exit" /\ raised = "stopped" /\ cur = j
    /\ trace # <<>>
    /\ Lifecycle(det, snap) \in {"Succeeded", "Failed"}

\* ------------------------------------------------------------------------
\* C12: when a pass is stopped inside a job's Succeeded or Failed sequence,
\* between any two calls, the passes re-run afterwards (no transfer failing,
\* no job raising) eventually complete the job's cleanup: no run directory,
\* no descriptor, the outputs in the durable store.
\* ------------------------------------------------------------------------
C12_ResumptionCompletes ==
    \A j \in Jobs : (StoppedInSequence(j) /\ NoBrokenJob) ~> Cleaned(j)

\* status() raises on j's run directory in every pass: more than one log file.
Stuck(j) == desc[j] /\ run[j] /\ logs[j] > 1

\* The evidence of j's run is that of a terminal state, Succeeded or Failed.
Terminal(j) ==
    /\ desc[j] /\ run[j] /\ logs[j] = 1 /\ resDir[j]
    /\ (results[j] # {} \/ done(logText[j]))

\* ------------------------------------------------------------------------
\* C13: a job on which status() raises in every pass never blocks the
\* others: every other job whose evidence is that of a terminal state is
\* eventually archived and removed by the re-run passes, wherever it comes
\* in the order of the descriptors (a pass stopped from outside aside).
\* ------------------------------------------------------------------------
C13_StuckJobBlocksNoOther ==
    \A j, k \in Jobs :
        (pc = "idle" /\ stops = 0 /\ Stuck(k) /\ Terminal(j)) ~> (Cleaned(j) \/ stops > 0)

\* The lifecycle state as a function of the evidence alone: the run
\* directory's existence, the number of its log files, the listing of its
\* results directory and the content of its log.
ByEvidence(r, n, listing, text) ==
    IF ~r THEN "Unsubmitted"
    ELSE IF n = 0 THEN "Queued"
    ELSE IF n > 1 THEN "StructuralError"
    ELSE IF listing # {} THEN "Succeeded"
    ELSE IF HasTerminalLine(text) THEN "Failed"
    ELSE "Running"

\* ------------------------------------------------------------------------
\* C14: detection changes nothing in the working directory, the durable
\* store or the blob store (nor at the scheduler), and its outcome is a
\* function of the evidence: whether the run directory exists, the number of
\* log files, the results directory's contents and the log's content.
\* ------------------------------------------------------------------------
C14_DetectionReadsOnly ==
    [][(pc = "status" /\ PassStep) =>
        /\ UNCHANGED <<wd, stores, sched>>
        /\ LET state == ByEvidence(run[cur], logs[cur], results[cur], logText[cur]) IN
           IF pc' = "dispatch"
           THEN Lifecycle(det', results[cur]) = state
           ELSE \/ raised' = "AssertionError" /\ state = "StructuralError"
                \/ raised' = "OSError" /\ logs[cur] = 1 /\ ~resDir[cur]]_vars

C14_DetectedWithStoresFilled ==
    /\ pc = "dispatch"
    /\ det.log # None
    /\ blob[cur].log
    /\ \E f \in results[cur] : TRUE

\* ------------------------------------------------------------------------
\* C15: in the Succeeded sequence under a pipeline that is not a recognized
\* one, pruning works on an empty pattern list: it deletes no results file,
\* it does not fail, and the sequence goes on to the re-mirror (and from
\* there to the final deletion).
\* ------------------------------------------------------------------------
C15_UnknownPipelinePrunesNothing ==
    [][(/\ pc = "succeeded: remove_unnecessary_intermediates"
        /\ pipeline \notin Recognized
        /\ PassStep) =>
            /\ pc' = "succeeded: copy_dir_aws"
            /\ raised' = raised
            /\ trace' = Append(trace, <<"remove_unnecessary_intermediates", "">>)
            /\ UNCHANGED <<wd, stores, sched>>]_vars

C15_UnprunedSequenceDone ==
    /\ SequenceDone
    /\ Lifecycle(det, snap) = "Succeeded"
    /\ pipeline \notin Recognized
    /\ "reads.sam" \in snap
    /\ "reads.sam" \in blob[cur].mirror
    /\ <<"remove_unnecessary_intermediates", "">> \in Range(trace)

\* A directory of args is missing, or the pipeline is not a recognized one.
ConfigurationError == (\E d \in Dirs : ~Exists(d)) \/ pipeline \notin Recognized

\* No submit, upload, copy, prune or delete has been called in this pass.
NothingPerformed ==
    \A i \in DOMAIN trace : trace[i][1] \in {"status failed", "listdir failed"}

\* No descriptor has been taken up in this pass.
NothingProcessed == cur = None /\ NothingPerformed

\* ------------------------------------------------------------------------
\* C16: with the working directory, the results directory or the log
\* directory missing, or an unknown pipeline name, the pass ends before any
\* job is processed: no submit, upload, copy, prune or delete is performed.
\* ------------------------------------------------------------------------
C16_ConfigurationErrorIsFatal ==
    (pc # "idle" /\ ConfigurationError) => NothingPerformed

\* ------------------------------------------------------------------------
\* C16, as the code has it: a missing log directory ends the pass before the
\* loop, with the exception of the log handler, and a missing working
\* directory leaves the loop nothing to iterate; in both cases no job is
\* processed. (A missing results directory and an unknown pipeline name do
\* not end the pass.)
\* ------------------------------------------------------------------------
C16_MissingLogDirIsFatal ==
    /\ (pc # "idle" /\ ~Exists("log_dir")) =>
            (pc = "exit" /\ raised = "IOError" /\ NothingProcessed)
    /\ (pc # "idle" /\ ~Exists("work_dir")) =>
            (pc \in {"loop", "exit"} /\ queue = <<>> /\ NothingProcessed)

C16_EndedBeforeTheLoop ==
    /\ pc = "exit" /\ raised = "IOError"
    /\ desc["job7"] /\ Terminal("job7")
    /\ blob["job7"] = NoBlob /\ durable["job7"] = NoDurable

\* The job's terminal sequence has completed: run directory and descriptor
\* are removed.
Completed(j) == ~desc[j] /\ ~run[j]

\* ------------------------------------------------------------------------
\* C17: once a job's run directory and descriptor are removed, a further
\* pass is a no-op for it: the glob does not find its descriptor, so no call
\* is made for it, and what the durable store and the blob store hold of it
\* (and its submissions) stays as it is.
\* ------------------------------------------------------------------------
C17_CompletedJobUntouched ==
    /\ [](\A j \in Jobs : Completed(j) =>
            /\ j \notin Range(queue)
            /\ (cur = j => pc \in {"loop", "exit"}))
    /\ [][\A j \in Jobs : Completed(j) =>
            UNCHANGED <<durable[j], blob[j], submits[j], script[j]>>]_vars

C17_SecondPassFindsNothing ==
    /\ pc = "loop" /\ cur = None /\ queue = <<>>
    /\ Completed("job7")
    /\ durable["job7"].st = "full" /\ blob["job7"].desc

\* ------------------------------------------------------------------------
\* C18: make_tarfile never overwrites: called with the archive path there,
\* it leaves the archive as it is and ends normally; it writes an archive
\* only when there is none, and no other step changes an archive.
\* ------------------------------------------------------------------------
C18_ArchiveNeverOverwritten ==
    [][/\ \A j \in Jobs : archive[j].there => archive'[j] = archive[j]
       /\ (pc = "idle" /\ pc' = "exit") =>
            LET j == trace'[1][2] IN
            IF archive[j].there
            THEN /\ trace' = <<<<"make_tarfile exists", j>>>>
                 /\ raised' = "none"
                 /\ archive' = archive
            ELSE /\ archive'[j].there
                 /\ run[j] => (archive'[j].of = results[j] /\ raised' = "none")]_vars

C18_StaleArchiveKept ==
    /\ pc = "exit"
    /\ trace = <<<<"make_tarfile exists", "job7">>>>
    /\ run["job7"]
    /\ archive["job7"].there
    /\ archive["job7"].of # results["job7"]

\* ------------------------------------------------------------------------
\* C19: nothing keeps two passes over the same working directory apart. A
\* pass that found no wrapper script calls Submitter even if the other pass
\* has created the script since, so Submitter is called twice for the
\* descriptor; a pass whose run directory the other pass has deleted still
\* attempts the deletion, and ends on its error. Both happen only with the
\* second invocation started.
\* ------------------------------------------------------------------------
C19_NoMutualExclusion ==
    /\ []((pc = "unsubmitted: Submitter" /\ script[cur]) =>
            (submits[cur] >= 1 /\ other.pc # "idle"))
    /\ [](\A j \in Jobs : submits[j] > 1 => (pc # "idle" /\ other.pc # "idle"))
    /\ [][(pc = "unsubmitted: Submitter" /\ PassStep) =>
            submits'[cur] = submits[cur] + 1]_vars
    /\ [][(pc \in {"succeeded: remove", "failed: remove"} /\ ~run[cur] /\ PassStep) =>
            /\ pc' = "exit" /\ raised' = "OSError"
            /\ other.pc # "idle"
            /\ UNCHANGED <<wd, stores, sched>>]_vars

C19_BothRaces ==
    /\ submits["job7"] = 2
    /\ cur = "job8" /\ ~run["job8"]
    /\ pc = "exit" /\ raised = "OSError"
    /\ trace # <<>> /\ trace[Len(trace)] = <<"remove failed", "">>

\* File f of a results directory matches a pattern of the pass's pipeline.
Prunable(f) == \E sfx \in suffixes_to_remove(pipeline) : match(sfx, f)

\* Pruning deletes matching files of the current job's results directory
\* and nothing else.
C20_PruneStep ==
    (pc = "succeeded: remove_unnecessary_intermediates" /\ PassStep) =>
        /\ results'[cur] = {f \in results[cur] : ~Prunable(f)}
        /\ \A k \in Jobs \ {cur} : results'[k] = results[k]
        /\ UNCHANGED <<desc, script, run, resDir, logs, logText, durable, blob>>

\* After the re-mirror of a Succeeded sequence the durable store holds the
\* results as they were before pruning, the mirror no pruned file.
C20_StoresAfterMirror ==
    (/\ Lifecycle(det, snap) = "Succeeded"
     /\ pc \in {"succeeded: remove", "succeeded: remove_file", "loop"}
     /\ <<"copy_dir_aws", "">> \in Range(trace)) =>
        /\ snap \subseteq durable[cur].results
        /\ \A f \in blob[cur].mirror : ~Prunable(f)

\* ------------------------------------------------------------------------
\* C20: pruning deletes only the files directly in the job's results
\* directory whose names match a pattern of the active pipeline, and leaves
\* every other results file, the log, the descriptor, other jobs' files and
\* the durable copy as they are; the durable store therefore keeps the
\* unpruned results, and the mirror made after pruning holds only the pruned
\* results.
\* ------------------------------------------------------------------------
C20_PruningAndTheStores ==
    /\ [][C20_PruneStep]_vars
    /\ []C20_StoresAfterMirror

\* A step of a terminal sequence that deletes the current job's run directory.
DeletesRunDirectory ==
    /\ pc \in {"succeeded: remove", "failed: remove"}
    /\ PassStep
    /\ run[cur] /\ ~run'[cur]

\* ------------------------------------------------------------------------
\* C21: whenever a terminal sequence deletes a job's run directory, the
\* durable store holds a complete copy of it, also when an earlier pass was
\* stopped in the middle of the copy and left the destination incomplete.
\* ------------------------------------------------------------------------
C21_DurableCopyComplete ==
    [][DeletesRunDirectory =>
        (durable[cur].st = "full" /\ results[cur] \subseteq durable[cur].results)]_vars


\* A pass over one descriptor with any evidence, every transfer succeeding,
\* the cluster quiet, the pass stopped from outside at most MaxStops times.
SpecStopped == InitDetect /\ [][Resumed]_vars

\* What a pass starting now detects for j: the lifecycle state main() takes
\* from status() and the listing of j's results directory on the files as
\* they are, or the exception status() ends with.
Redetected(j) ==
    LET r == status(j) IN
    IF r.exc # None THEN r.exc ELSE Lifecycle(r, results[j])

\* The pass was stopped in j's Succeeded sequence with j's run directory
\* still in the working directory.
StoppedBeforeDeletion(j) ==
    /\ pc = "exit" /\ raised = "stopped" /\ cur = j
    /\ Lifecycle(det, snap) = "Succeeded"
    /\ run[j]

\* ------------------------------------------------------------------------
\* C22: a job that was detected Succeeded and whose sequence was stopped
\* before the run directory was deleted is detected Succeeded again by the
\* next pass, never Failed or Running (also when the pass stopped after the
\* pruning and every file of the results directory matched a pattern).
\* ------------------------------------------------------------------------
C22_RedetectedSucceeded ==
    \A j \in Jobs : StoppedBeforeDeletion(j) => Redetected(j) = "Succeeded"


\* The lifecycle states detection can hand to main().
LifecycleStates == {"Unsubmitted", "Queued", "Running", "Succeeded", "Failed"}

\* Detection of the current descriptor ended with an exception.
DetectionRaised ==
    /\ pc = "exit" /\ raised # "none"
    /\ trace # <<>>
    /\ trace[Len(trace)][1] \in {"status failed", "listdir failed"}

\* ------------------------------------------------------------------------
\* C23: detection is total: on every combination of evidence (also a run
\* directory with exactly one log and no results directory yet) it yields
\* one of Unsubmitted, Queued, Running, Succeeded, Failed, or it signals
\* StructuralError (the AssertionError on more than one log), and no other
\* error.
\* ------------------------------------------------------------------------
C23_DetectionTotal ==
    /\ DetectionRaised => raised = "AssertionError"
    /\ Detected => Lifecycle(det, snap) \in LifecycleStates


\* A step of a terminal sequence that deletes the current job's descriptor.
DeletesDescriptor ==
    /\ pc \in {"succeeded: remove_file", "failed: remove_file"}
    /\ PassStep
    /\ desc[cur] /\ ~desc'[cur]

\* ------------------------------------------------------------------------
\* C24: with the cluster job writing beside the pass, the pass never deletes
\* a job's run directory or descriptor while the job is still executing,
\* that is before its log holds a terminal marker; a first result file that
\* appears while the job still writes does not set off the deletion.
\* ------------------------------------------------------------------------
C24_NoDeletionWhileExecuting ==
    [][(DeletesRunDirectory \/ DeletesDescriptor) => ~Executing(cur)]_vars


\* ------------------------------------------------------------------------
\* download_rawdata.py: the script that puts descriptors into the working
\* directory, run between the passes of generate_jobs.py
\* ------------------------------------------------------------------------
\* download_metadata_from_s3() and the glob of json_dir: the descriptors the
\* loop of main() goes through, in the order of the glob.
Download_metadata(order) ==
    /\ pc = "idle"
    /\ queue' = order
    /\ pc' = "download: for json_file"
    /\ UNCHANGED <<pipeline, cur, det, trace, snap, raised>>
    /\ UNCHANGED <<wd, stores, sched, ext>>

\* The loop of main() moving every descriptor, whatever results_dir holds.
Download_json_file_always ==
    /\ pc = "download: for json_file"
    /\ IF queue = <<>>
       THEN /\ pc' = "idle"
            /\ cur' = None
            /\ UNCHANGED <<desc, queue>>
       ELSE /\ cur' = Head(queue)
            /\ queue' = Tail(queue)
            /\ desc' = [desc EXCEPT ![Head(queue)] = TRUE]
            /\ UNCHANGED pc
    /\ UNCHANGED <<pipeline, det, trace, snap, raised>>
    /\ UNCHANGED <<script, run, resDir, logs, logText, results, stores, sched, ext>>

\* One turn of the loop of main(): move_and_make_exec() copies the
\* descriptor into work_dir unless results_dir has an entry of the job's name.
Download_json_file ==
    /\ pc = "download: for json_file"
    /\ IF queue = <<>>
       THEN /\ pc' = "idle"
            /\ cur' = None
            /\ UNCHANGED <<desc, queue>>
       ELSE /\ cur' = Head(queue)
            /\ queue' = Tail(queue)
            /\ IF durable[Head(queue)].st # "absent"
               THEN UNCHANGED desc
               ELSE desc' = [desc EXCEPT ![Head(queue)] = TRUE]
            /\ UNCHANGED pc
    /\ UNCHANGED <<pipeline, det, trace, snap, raised>>
    /\ UNCHANGED <<script, run, resDir, logs, logText, results, stores, sched, ext>>

\* Complete runs of the two scripts, one after the other, in any order.
Download ==
    \/ Pass
    \/ \E found \in SUBSET Jobs : \E order \in Perms(found) : Download_metadata(order)
    \/ Download_json_file

\* Every descriptor is in the working directory, as download_rawdata.py put
\* it there; what has left since has left by a completed sequence.
SpecDownload == InitBatch /\ [][Download]_vars

\* download_rawdata.py has just gone through j's descriptor.
Downloaded(j) == pc = "download: for json_file" /\ cur = j

\* ------------------------------------------------------------------------
\* C25: a completed job is never re-queued by the download script: it copies
\* a descriptor into the working directory only when the durable results
\* directory has no entry of the job's name, and a completed Succeeded or
\* Failed sequence has made that entry before it deleted the descriptor; so
\* a descriptor that a completed sequence has deleted does not reappear.
\* ------------------------------------------------------------------------
C25_CompletedNeverRequeued ==
    [][\A j \in Jobs :
          /\ Completed(j) => ~desc'[j]
          /\ (DeletesDescriptor /\ cur = j) => durable[j].st # "absent"]_vars

\* The download script went through the descriptor of a job whose sequence
\* had completed, and left the working directory without it.
C25_SkippedCompletedJob ==
    \E j \in Jobs : Downloaded(j) /\ Completed(j) /\ durable[j].st # "absent"

====
